---- MODULE Spec2Model ----
(***************************************************************************)
(* A model of app.py, the Streamlit book-summary infographic generator.    *)
(*                                                                         *)
(* Four state machines share this module, one specification each:          *)
(*   SpecWrap    the greedy word-wrapping loops of create_infographic      *)
(*   SpecParse   parse_summary_text (the regex scan of pattern.findall)    *)
(*   SpecRender  create_infographic's card grid, quote block and footer    *)
(*   Spec        the step wizard over st.session_state                     *)
(*                                                                         *)
(* Python strings are sequences of one-character strings.                  *)
(***************************************************************************)
EXTENDS Integers, Sequences, FiniteSets, TLC

VARIABLES
    \* --- the word-wrapping loop
    wrap_kind,      \* which loop: "title", "description" or "quote"
    wrap_text,      \* the string that is split into words
    max_width,      \* max_width_title / text_max_width / quote_max_width
    words,          \* the words not yet consumed by the for loop
    current_line,   \* current_line / line_desc / current_line_quote
    lines,          \* the lines produced so far, as the loop built them
    drawn,          \* the strings handed to draw.text, in order
    wpc,            \* "off", "loop", "done"
    \* --- parse_summary_text
    text,           \* the argument, an optional string (<<>> is None)
    scan_pos,       \* where pattern.findall resumes scanning
    matches,        \* the (title, description) groups found so far
    cards,          \* the returned list of cards
    ppc,            \* "off", "scan", "done"
    \* --- create_infographic layout
    themes_n,       \* len(themes)
    card_i,         \* the index of the card loop
    boxes,          \* the card rectangles drawn so far
    last_box_y,     \* last_box_y
    best_quote,     \* additional_info["best_quote"], optional
    quote_nlines,   \* len(lines_quote) the wrap will produce
    font_height,    \* font_quote.getbbox('A')[3]
    quote_box,      \* the quote rectangle, optional
    details,        \* additional_info["details"], a dict
    footer_cells,   \* the footer cells drawn
    rpc,            \* "off", "cards", "quote", "footer", "done"
    \* --- the wizard
    secrets_ok,     \* whether st.secrets holds the three API keys
    session,        \* st.session_state, a function from its keys
    rerun,          \* a script run is scheduled (st.rerun() or a widget)
    screen,         \* what the last completed script run displayed
    image           \* the infographic the last run rendered, optional

wrapVars == <<wrap_kind, wrap_text, max_width, words, current_line, lines, drawn, wpc>>
parseVars == <<text, scan_pos, matches, cards, ppc>>
renderVars == <<themes_n, card_i, boxes, last_box_y, best_quote, quote_nlines,
                font_height, quote_box, details, footer_cells, rpc>>
wizVars == <<secrets_ok, session, rerun, screen, image>>
vars == <<wrapVars, parseVars, renderVars, wizVars>>

(***************************************************************************)
(* Bounds of the model.                                                    *)
(***************************************************************************)
MaxTextLen == 5
MaxWidth == 4

(***************************************************************************)
(* Python string helpers.                                                  *)
(***************************************************************************)
\* str.isspace for the characters of the model (\s of the regex as well)
IsSpace(c) == c \in {" ", "\n"}

\* str.upper / str.lower, character by character
UpperChar(c) ==
    CASE c = "a" -> "A" [] c = "m" -> "M" [] c = "n" -> "N" [] c = "b" -> "B"
      [] OTHER -> c
LowerChar(c) ==
    CASE c = "A" -> "a" [] c = "M" -> "m" [] c = "N" -> "n" [] c = "B" -> "b"
      [] OTHER -> c
Upper(s) == [k \in 1..Len(s) |-> UpperChar(s[k])]
Lower(s) == [k \in 1..Len(s) |-> LowerChar(s[k])]

\* str.lstrip / str.rstrip / str.strip (no argument: whitespace)
RECURSIVE LStrip(_)
LStrip(s) == IF s # <<>> /\ IsSpace(Head(s)) THEN LStrip(Tail(s)) ELSE s
RECURSIVE RStrip(_)
RStrip(s) ==
    IF s # <<>> /\ IsSpace(s[Len(s)]) THEN RStrip(SubSeq(s, 1, Len(s) - 1)) ELSE s
Strip(s) == RStrip(LStrip(s))

\* str.split() with no argument: the maximal runs of non-whitespace
RECURSIVE SplitFrom(_, _, _)
SplitFrom(s, word, acc) ==
    IF s = <<>> THEN (IF word = <<>> THEN acc ELSE Append(acc, word))
    ELSE IF IsSpace(Head(s))
         THEN SplitFrom(Tail(s), <<>>, IF word = <<>> THEN acc ELSE Append(acc, word))
         ELSE SplitFrom(Tail(s), Append(word, Head(s)), acc)
Split(s) == SplitFrom(s, <<>>, <<>>)

\* the concatenation of a list of strings
RECURSIVE Concat(_)
Concat(ss) == IF ss = <<>> THEN <<>> ELSE Head(ss) \o Concat(Tail(ss))

\* every string over alphabet cs of length at most n
RECURSIVE StringsUpTo(_, _)
StringsUpTo(cs, n) ==
    IF n = 0 THEN {<<>>}
    ELSE LET shorter == StringsUpTo(cs, n - 1)
         IN  shorter \cup {Append(s, c) : s \in shorter, c \in cs}

(***************************************************************************)
(* The word-wrapping loops (title, card description, quote).               *)
(***************************************************************************)
WrapKinds == {"title", "description", "quote"}

\* the advance width of one glyph of the font in use
CharWidth(c) ==
    CASE c = "a" -> 1 [] c = "m" -> 5 [] c = "A" -> 2 [] c = "M" -> 6
      [] c = " " -> 1 [] OTHER -> 1

\* draw.textlength(s, font): the sum of the advances
RECURSIVE TextLength(_)
TextLength(s) == IF s = <<>> THEN 0 ELSE CharWidth(Head(s)) + TextLength(Tail(s))

\* the loop's test: textlength(current_line + word + ' ') <= max_width
FitsNoSpace(line, word, width) == TextLength(line \o word) <= width
Fits(line, word, width) == TextLength(line \o word \o <<" ">>) <= width

\* the list of lines after a break / after the loop: lines.append(current_line)
BreakKeepsLines(ls, line) == ls
BreakLines(ls, line) == Append(ls, line)

\* what is handed to draw.text: the title skips blank lines and strips, the
\* quote strips, the description is drawn as built
RECURSIVE NonBlankStripped(_)
NonBlankStripped(ls) ==
    IF ls = <<>> THEN <<>>
    ELSE IF Strip(Head(ls)) # <<>>
         THEN <<Strip(Head(ls))>> \o NonBlankStripped(Tail(ls))
         ELSE NonBlankStripped(Tail(ls))
Drawn(kind, ls) ==
    CASE kind = "title" -> NonBlankStripped(ls)
      [] kind = "quote" -> [k \in 1..Len(ls) |-> Strip(ls[k])]
      [] OTHER -> ls

WrapIdle ==
    /\ wrap_kind = "title" /\ wrap_text = <<>> /\ max_width = 0
    /\ words = <<>> /\ current_line = <<>> /\ lines = <<>> /\ drawn = <<>>
    /\ wpc = "off"

WrapInit ==
    /\ wrap_kind \in WrapKinds
    /\ \E s \in StringsUpTo({"a", "m", " "}, MaxTextLen) :
          wrap_text = IF wrap_kind = "title" THEN Upper(s) ELSE s
    /\ max_width \in 1..MaxWidth
    /\ words = Split(wrap_text)
    /\ current_line = <<>> /\ lines = <<>> /\ drawn = <<>>
    /\ wpc = "loop"

\* one iteration of the for loop, the word fits
WrapAppend ==
    /\ wpc = "loop" /\ words # <<>>
    /\ Fits(current_line, Head(words), max_width)
    /\ current_line' = current_line \o Head(words) \o <<" ">>
    /\ words' = Tail(words)
    /\ UNCHANGED <<wrap_kind, wrap_text, max_width, lines, drawn, wpc>>
    /\ UNCHANGED <<parseVars, renderVars, wizVars>>

\* one iteration of the for loop, the word starts a new line
WrapBreak ==
    /\ wpc = "loop" /\ words # <<>>
    /\ ~Fits(current_line, Head(words), max_width)
    /\ lines' = BreakLines(lines, current_line)
    /\ current_line' = Head(words) \o <<" ">>
    /\ words' = Tail(words)
    /\ UNCHANGED <<wrap_kind, wrap_text, max_width, drawn, wpc>>
    /\ UNCHANGED <<parseVars, renderVars, wizVars>>

\* after the loop: the last line is kept, and the lines are drawn
WrapFinish ==
    /\ wpc = "loop" /\ words = <<>>
    /\ lines' = BreakLines(lines, current_line)
    /\ drawn' = Drawn(wrap_kind, lines')
    /\ wpc' = "done"
    /\ UNCHANGED <<wrap_kind, wrap_text, max_width, words, current_line>>
    /\ UNCHANGED <<parseVars, renderVars, wizVars>>


(***************************************************************************)
(* parse_summary_text: the regular expression of line 63 (re.MULTILINE):    *)
(* line start, digits, a period, whitespace (one or more), an optional     *)
(* asterisk, the lazy title group, an optional asterisk, a colon,          *)
(* whitespace (any), the greedy description group.  It is matched as re    *)
(* does: the digit and whitespace runs and the description greedy, the     *)
(* title lazy, the dot any character but a newline, whitespace any         *)
(* whitespace character (a newline included), and the line start at the    *)
(* start of the string and after every newline.                            *)
(***************************************************************************)
MaxLines == 2

None == <<>>
Some(v) == <<v>>
\* Python's truth value of an optional string: None and "" are false
Truthy(opt) == opt # None /\ opt[1] # <<>>

IsDigit(c) == c \in {"1", "2"}

\* the first position at or after p whose character is not in the run
RECURSIVE DigitsEnd(_, _)
DigitsEnd(s, p) == IF p <= Len(s) /\ IsDigit(s[p]) THEN DigitsEnd(s, p + 1) ELSE p
RECURSIVE SpaceEnd(_, _)
SpaceEnd(s, p) == IF p <= Len(s) /\ IsSpace(s[p]) THEN SpaceEnd(s, p + 1) ELSE p
\* the greedy description group: to the end of the line
RECURSIVE LineEnd(_, _)
LineEnd(s, p) == IF p <= Len(s) /\ s[p] # "\n" THEN LineEnd(s, p + 1) ELSE p

\* ^ under re.MULTILINE
AtLineStart(s, p) == p = 1 \/ s[p - 1] = "\n"

\* the lazy title group, from p: the position of the first colon the lazy title can stop
\* at, 0 when the line holds none; the title ends before an asterisk that
\* immediately precedes that colon
RECURSIVE ColonFrom(_, _)
ColonFrom(s, p) ==
    IF p > Len(s) \/ s[p] = "\n" THEN 0
    ELSE IF s[p] = ":" THEN p
    ELSE IF s[p] = "*" /\ p < Len(s) /\ s[p + 1] = ":" THEN p + 1
    ELSE ColonFrom(s, p + 1)

NoMatch == [ok |-> FALSE, title |-> <<>>, description |-> <<>>, end |-> 0]

\* pattern.match at position p: the two groups and the end of the match
MatchAt(s, p) ==
    IF ~(p <= Len(s) /\ AtLineStart(s, p) /\ IsDigit(s[p])) THEN NoMatch
    ELSE
    LET dot == DigitsEnd(s, p)
    IN  IF ~(dot <= Len(s) /\ s[dot] = ".") THEN NoMatch
        ELSE
        LET ws == SpaceEnd(s, dot + 1)
        IN  IF ws = dot + 1 THEN NoMatch          \* one whitespace character at least
            ELSE
            LET start == IF ws <= Len(s) /\ s[ws] = "*" THEN ws + 1 ELSE ws
                colon == ColonFrom(s, start)
            IN  IF colon = 0 THEN NoMatch
                ELSE
                LET titleEnd == IF s[colon - 1] = "*" /\ colon - 1 >= start
                                THEN colon - 2 ELSE colon - 1
                    descStart == SpaceEnd(s, colon + 1)
                    descEnd == LineEnd(s, descStart)
                IN  [ok |-> TRUE,
                     title |-> SubSeq(s, start, titleEnd),
                     description |-> SubSeq(s, descStart, descEnd - 1),
                     end |-> descEnd]

\* the position of the next match at or after p, 0 when there is none
RECURSIVE NextMatch(_, _)
NextMatch(s, p) ==
    IF p > Len(s) THEN 0
    ELSE IF MatchAt(s, p).ok THEN p ELSE NextMatch(s, p + 1)

\* match[0].replace('*', '')
RECURSIVE RemoveStars(_)
RemoveStars(s) ==
    IF s = <<>> THEN <<>>
    ELSE IF Head(s) = "*" THEN RemoveStars(Tail(s))
         ELSE <<Head(s)>> \o RemoveStars(Tail(s))

\* one element of the returned list
Card(m) ==
    [title |-> Strip(RemoveStars(m.title)), description |-> Strip(m.description)]

\* pattern.findall(text), scanning from p
RECURSIVE FindAll(_, _)
FindAll(s, p) ==
    LET q == NextMatch(s, p)
    IN  IF q = 0 THEN <<>>
        ELSE <<MatchAt(s, q)>> \o FindAll(s, MatchAt(s, q).end)

\* parse_summary_text(text)
ParseSummaryText(opt) ==
    IF ~Truthy(opt) THEN <<>>
    ELSE LET ms == FindAll(opt[1], 1) IN [k \in 1..Len(ms) |-> Card(ms[k])]

\* The texts the parser is run on: up to MaxLines lines joined by newlines,
\* a line being a numbered item (its title with or without the ** markers, its
\* description possibly empty) or a line that is no numbered item.
ItemTitles == {<<"a">>, <<"a", ":", "m">>}
ItemDescriptions == {<<>>, <<"b">>}
ItemLine(num, marked, title, desc) ==
    <<num, ".", " ">>
      \o (IF marked THEN <<"*", "*">> \o title \o <<"*", "*">> ELSE title)
      \o <<":">>
      \o (IF desc = <<>> THEN <<>> ELSE <<" ">> \o desc)
ItemLines ==
    {ItemLine(num, marked, title, desc) :
        num \in {"1", "2"}, marked \in BOOLEAN,
        title \in ItemTitles, desc \in ItemDescriptions}
OtherLines == {<<>>, <<"b">>, <<"1", ".", "a", ":", " ", "b">>, <<"1", ".">>}
LineShapes == ItemLines \cup OtherLines

RECURSIVE JoinLines(_)
JoinLines(ls) ==
    IF ls = <<>> THEN <<>>
    ELSE IF Len(ls) = 1 THEN ls[1]
    ELSE ls[1] \o <<"\n">> \o JoinLines(Tail(ls))

RECURSIVE LineSeqs(_)
LineSeqs(n) ==
    IF n = 0 THEN {<<>>}
    ELSE LET shorter == LineSeqs(n - 1)
         IN  shorter \cup {Append(ls, l) : ls \in shorter, l \in LineShapes}

ParseIdle ==
    /\ text = None /\ scan_pos = 0 /\ matches = <<>> /\ cards = <<>> /\ ppc = "off"

ParseInit ==
    /\ text \in {None} \cup {Some(JoinLines(ls)) : ls \in LineSeqs(MaxLines)}
    /\ scan_pos = 1 /\ matches = <<>> /\ cards = <<>>
    /\ ppc = "scan"

\* if not text: return []
ParseEmpty ==
    /\ ppc = "scan" /\ ~Truthy(text)
    /\ cards' = <<>>
    /\ ppc' = "done"
    /\ UNCHANGED <<text, scan_pos, matches>>
    /\ UNCHANGED <<wrapVars, renderVars, wizVars>>

\* findall finds the next match and resumes at its end
ParseMatch ==
    /\ ppc = "scan" /\ Truthy(text)
    /\ NextMatch(text[1], scan_pos) # 0
    /\ LET m == MatchAt(text[1], NextMatch(text[1], scan_pos))
       IN  /\ matches' = Append(matches, m)
           /\ scan_pos' = m.end
    /\ UNCHANGED <<text, cards, ppc>>
    /\ UNCHANGED <<wrapVars, renderVars, wizVars>>

\* no further match: the list comprehension builds the cards
ParseReturn ==
    /\ ppc = "scan" /\ Truthy(text)
    /\ NextMatch(text[1], scan_pos) = 0
    /\ cards' = [k \in 1..Len(matches) |-> Card(matches[k])]
    /\ ppc' = "done"
    /\ UNCHANGED <<text, scan_pos, matches>>
    /\ UNCHANGED <<wrapVars, renderVars, wizVars>>


(***************************************************************************)
(* create_infographic: the card grid, the quote block and the footer.      *)
(***************************************************************************)
MaxThemes == 6
MaxQuoteLines == 3

WIDTH == 1200
HEIGHT == 2200
PADDING == 80
HEADER_HEIGHT == 400
GAP == 40
NUM_COLUMNS == 2
CARD_HEIGHT == 220
QUOTE_PADDING == 40
COLUMN_WIDTH == (WIDTH - (2 * PADDING) - GAP) \div NUM_COLUMNS
current_y_content == HEADER_HEIGHT + 60

NA == <<"N", "/", "A">>

\* dict.get(key, default)
Get(d, key, default) == IF key \in DOMAIN d THEN d[key] ELSE default

\* the rectangle of card i (0-based), as handed to draw.rounded_rectangle
CardBoxRowByColumn(i) ==
    LET col == i % NUM_COLUMNS
        row == i % NUM_COLUMNS
        box_x == PADDING + col * (COLUMN_WIDTH + GAP)
        box_y == current_y_content + row * (CARD_HEIGHT + GAP)
    IN  [x0 |-> box_x, y0 |-> box_y, x1 |-> box_x + COLUMN_WIDTH, y1 |-> box_y + CARD_HEIGHT]
CardBox(i) ==
    LET col == i % NUM_COLUMNS
        row == i \div NUM_COLUMNS
        box_x == PADDING + col * (COLUMN_WIDTH + GAP)
        box_y == current_y_content + row * (CARD_HEIGHT + GAP)
    IN  [x0 |-> box_x, y0 |-> box_y, x1 |-> box_x + COLUMN_WIDTH, y1 |-> box_y + CARD_HEIGHT]

\* quote_text = additional_info.get("best_quote", "")
QuoteText(opt) == IF opt = None THEN <<>> ELSE opt[1]
\* if quote_text and quote_text.lower() != "n/a"
QuoteShown(q) == q # <<>> /\ Lower(q) # Lower(NA)

\* the quote rectangle, as handed to draw.rounded_rectangle
QuoteBox(last_y, nlines, height) ==
    LET quote_y_start == last_y + 60
        line_height_quote == height + 8
        quote_box_height == (nlines * line_height_quote) + (2 * QUOTE_PADDING)
    IN  [x0 |-> PADDING, y0 |-> quote_y_start,
         x1 |-> WIDTH - PADDING, y1 |-> quote_y_start + quote_box_height]

\* footer_items, in the dict's insertion order
FooterItems(d) ==
    << [label |-> "PENERBIT", value |-> Get(d, "publisher", NA)],
       [label |-> "TAHUN TERBIT", value |-> Get(d, "publication_year", NA)],
       [label |-> "HALAMAN", value |-> Get(d, "page_count", NA)] >>

\* item_x of cell i (0-based) of n, times 2 * n to stay in the integers:
\* item_width = (WIDTH - 2 * PADDING) / n,
\* item_x = PADDING + i * item_width + item_width / 2
ItemX2N(i, n) == (2 * n * PADDING) + ((2 * i + 1) * (WIDTH - 2 * PADDING))
footer_y == HEIGHT - 120

\* the cells the footer loop draws
FooterCells(d) ==
    LET items == FooterItems(d)
    IN  [k \in 1..Len(items) |->
            [label |-> items[k].label, value |-> items[k].value,
             x2n |-> ItemX2N(k - 1, Len(items)),
             label_y |-> footer_y + 35, value_y |-> footer_y + 60]]

\* the inputs of a render
DetailKeys == {"publisher", "publication_year", "page_count"}
DetailValues == {<<>>, NA, <<"G">>}
DetailDicts == UNION {[K -> DetailValues] : K \in SUBSET DetailKeys}
QuoteValues == {None, Some(<<>>), Some(NA), Some(<<"n", "/", "a">>), Some(<<"a">>)}
\* font_quote.getbbox('A')[3] of the built-in fallback font and of the italic
FontHeights == {11, 28}

RenderIdle ==
    /\ themes_n = 0 /\ card_i = 0 /\ boxes = <<>> /\ last_box_y = 0
    /\ best_quote = None /\ quote_nlines = 0 /\ font_height = 0
    /\ quote_box = None /\ details = <<>> /\ footer_cells = <<>>
    /\ rpc = "off"

RenderInit ==
    /\ themes_n \in 1..MaxThemes
    /\ card_i = 0 /\ boxes = <<>> /\ last_box_y = 0
    /\ best_quote \in QuoteValues
    /\ quote_nlines \in 1..MaxQuoteLines
    /\ font_height \in FontHeights
    /\ quote_box = None
    /\ details \in DetailDicts
    /\ footer_cells = <<>>
    /\ rpc = "cards"

\* one iteration of the card loop
PlaceCard ==
    /\ rpc = "cards" /\ card_i < themes_n
    /\ boxes' = Append(boxes, CardBox(card_i))
    /\ last_box_y' = CardBox(card_i).y1
    /\ card_i' = card_i + 1
    /\ UNCHANGED <<themes_n, best_quote, quote_nlines, font_height, quote_box,
                   details, footer_cells, rpc>>
    /\ UNCHANGED <<wrapVars, parseVars, wizVars>>

\* the quote block, drawn
DrawQuote ==
    /\ rpc = "cards" /\ card_i = themes_n
    /\ QuoteShown(QuoteText(best_quote))
    /\ quote_box' = Some(QuoteBox(last_box_y, quote_nlines, font_height))
    /\ rpc' = "footer"
    /\ UNCHANGED <<themes_n, card_i, boxes, last_box_y, best_quote, quote_nlines,
                   font_height, details, footer_cells>>
    /\ UNCHANGED <<wrapVars, parseVars, wizVars>>

\* the quote block, skipped
SkipQuote ==
    /\ rpc = "cards" /\ card_i = themes_n
    /\ ~QuoteShown(QuoteText(best_quote))
    /\ rpc' = "footer"
    /\ UNCHANGED <<themes_n, card_i, boxes, last_box_y, best_quote, quote_nlines,
                   font_height, quote_box, details, footer_cells>>
    /\ UNCHANGED <<wrapVars, parseVars, wizVars>>

\* the footer band
DrawFooter ==
    /\ rpc = "footer"
    /\ footer_cells' = FooterCells(details)
    /\ rpc' = "done"
    /\ UNCHANGED <<themes_n, card_i, boxes, last_box_y, best_quote, quote_nlines,
                   font_height, quote_box, details>>
    /\ UNCHANGED <<wrapVars, parseVars, wizVars>>


(***************************************************************************)
(* The wizard.  st.session_state is a function from the keys it holds; a   *)
(* step of the model is one run of the script: the run a widget triggers,  *)
(* or the run st.rerun() schedules (rerun = TRUE until it has happened).   *)
(***************************************************************************)
EmptyDict == [k \in {} |-> 0]
Put(d, key, value) == [k \in DOMAIN d \cup {key} |-> IF k = key THEN value ELSE d[k]]

\* reset_app: every key of the session state is deleted
ResetKeepsData(s) == [k \in DOMAIN s \ {"step"} |-> s[k]]
reset_app(s) == EmptyDict

\* the top of the script: keys_loaded records whether st.secrets has the keys
LoadKeys(s, ok) == Put(s, "keys_loaded", ok)
\* if 'step' not in st.session_state: st.session_state.step = 1
InitStep(s) == IF "step" \in DOMAIN s THEN s ELSE Put(s, "step", "1")
Prologue(s, ok) == InitStep(LoadKeys(s, ok))

\* needle in haystack, for strings
IsSubstring(needle, haystack) ==
    \E k \in 0..(Len(haystack) - Len(needle)) :
        SubSeq(haystack, k + 1, k + Len(needle)) = needle

\* user_author in retrieved_author or retrieved_author in user_author, after
\* both are lowered; the retrieved author defaults to "" here
FuzzyMatch(author_name, info) ==
    LET retrieved_author == Lower(Get(info, "retrieved_author", <<>>))
        user_author == Lower(author_name)
    IN  IsSubstring(user_author, retrieved_author)
          \/ IsSubstring(retrieved_author, user_author)

\* what the user can enter and what the collaborators can return
BookTitles == {<<"t">>}
UserAuthors == {<<"a">>, <<"A", "b">>}
RetrievedAuthors == {<<>>, <<"A">>, <<"a", "b">>, <<"m">>}
\* get_additional_details: the JSON object of the reply, with or without the
\* retrieved_author key, or the fallback dict when the call or the JSON fails
get_additional_details(title, author) ==
    {[retrieved_author |-> r, best_quote |-> <<"a">>, details |-> EmptyDict] :
        r \in RetrievedAuthors}
      \cup {[best_quote |-> <<"a">>, details |-> EmptyDict]}
      \cup {[retrieved_author |-> author, best_quote |-> NA, details |-> EmptyDict]}
\* get_book_cover_urls: the links of the items, or [] (no items, or an error)
get_book_cover_urls(title, author) == {<<>>, <<"u1">>, <<"u1", "u2">>}
\* get_book_summary: the reply's text, or None when the call fails
get_book_summary(title, author) ==
    {None, Some(<<>>), Some(<<"b">>),
     Some(ItemLine("1", TRUE, <<"a">>, <<"b">>)),
     Some(JoinLines(<<ItemLine("1", TRUE, <<"a">>, <<"b">>),
                      ItemLine("2", FALSE, <<"a">>, <<"b">>)>>))}

\* the branch the step 3 block takes
Step3RendersAnyText(s) ==
    IF ~Truthy(Get(s, "summary_text", None)) THEN "empty_summary_error"
    ELSE "image"
Step3Outcome(s) ==
    IF ~Truthy(Get(s, "summary_text", None)) THEN "empty_summary_error"
    ELSE IF ParseSummaryText(s["summary_text"]) = <<>> THEN "parse_error"
    ELSE "image"

\* the step 2 block: the error when there is no cover, the form otherwise
Step2AlwaysForm(s) == "cover_form"
Step2Screen(s) == IF s["cover_urls"] = <<>> THEN "no_cover_error" ELSE "cover_form"

\* create_infographic: the cover is pasted when there is a url and it is
\* fetched and decoded; any failure there is swallowed
create_infographic(book_title, author, themes, cover_url, additional_info, fetched) ==
    [book_title |-> book_title, author |-> author, themes |-> themes,
     cover_pasted |-> (cover_url # "" /\ fetched),
     additional_info |-> additional_info]

WizIdle ==
    /\ secrets_ok = FALSE /\ session = EmptyDict /\ rerun = FALSE
    /\ screen = "off" /\ image = None

\* the first run of the script in a new session
WizInit ==
    /\ secrets_ok \in BOOLEAN
    /\ session = Prologue(EmptyDict, secrets_ok)
    /\ rerun = FALSE
    /\ screen = IF secrets_ok THEN "input_form" ELSE "stopped"
    /\ image = None

\* step 1, the form submitted with the title or the author left empty
SubmitIncomplete ==
    /\ ~rerun /\ screen = "input_form"
    /\ \E book_title \in BookTitles \cup {<<>>}, author_name \in UserAuthors \cup {<<>>} :
          /\ book_title = <<>> \/ author_name = <<>>
          /\ session' = Prologue(session, secrets_ok)
    /\ UNCHANGED <<secrets_ok, rerun, screen, image>>
    /\ UNCHANGED <<wrapVars, parseVars, renderVars>>

\* step 1, the form submitted with both
SubmitBook ==
    /\ ~rerun /\ screen = "input_form"
    /\ \E book_title \in BookTitles, author_name \in UserAuthors :
       \E info \in get_additional_details(book_title, author_name) :
          LET s0 == Prologue(session, secrets_ok)
              s1 == Put(s0, "book_title", book_title)
              s2 == Put(s1, "user_author", author_name)
              s3 == Put(s2, "retrieved_author", Get(info, "retrieved_author", NA))
              s4 == Put(s3, "additional_info", info)
          IN  session' =
                IF FuzzyMatch(author_name, info)
                THEN Put(Put(s4, "author_name", s4["retrieved_author"]), "step", "processing")
                ELSE Put(s4, "step", "1.5")
    /\ rerun' = TRUE
    /\ screen' = "running"
    /\ UNCHANGED <<secrets_ok, image>>
    /\ UNCHANGED <<wrapVars, parseVars, renderVars>>

\* the run at step 1.5: the warning and the three buttons
RunStep15 ==
    /\ rerun /\ session["step"] = "1.5"
    /\ session' = Prologue(session, secrets_ok)
    /\ rerun' = FALSE
    /\ screen' = "confirm"
    /\ image' = None
    /\ UNCHANGED secrets_ok
    /\ UNCHANGED <<wrapVars, parseVars, renderVars>>

\* step 1.5, the button of the author the user entered
UseUserAuthor ==
    /\ ~rerun /\ screen = "confirm"
    /\ LET s0 == Prologue(session, secrets_ok)
       IN  session' = Put(Put(s0, "author_name", s0["user_author"]), "step", "processing")
    /\ rerun' = TRUE
    /\ screen' = "running"
    /\ UNCHANGED <<secrets_ok, image>>
    /\ UNCHANGED <<wrapVars, parseVars, renderVars>>

\* step 1.5, the button of the retrieved author
UseRetrievedAuthor ==
    /\ ~rerun /\ screen = "confirm"
    /\ LET s0 == Prologue(session, secrets_ok)
       IN  session' = Put(Put(s0, "author_name", s0["retrieved_author"]), "step", "processing")
    /\ rerun' = TRUE
    /\ screen' = "running"
    /\ UNCHANGED <<secrets_ok, image>>
    /\ UNCHANGED <<wrapVars, parseVars, renderVars>>

\* the run at step "processing": the covers and the summary are fetched
RunProcessing ==
    /\ rerun /\ session["step"] = "processing"
    /\ LET s0 == Prologue(session, secrets_ok)
       IN  \E cover_urls \in get_book_cover_urls(s0["book_title"], s0["author_name"]),
              summary_text \in get_book_summary(s0["book_title"], s0["author_name"]) :
              LET s1 == Put(s0, "cover_urls", cover_urls)
                  s2 == Put(s1, "summary_text", summary_text)
              IN  session' = Put(s2, "step", "2")
    /\ screen' = "running"
    /\ UNCHANGED <<secrets_ok, rerun, image>>
    /\ UNCHANGED <<wrapVars, parseVars, renderVars>>

\* the run at step 2: the cover form, or the error when there is no cover
RunStep2 ==
    /\ rerun /\ session["step"] = "2"
    /\ LET s0 == Prologue(session, secrets_ok)
       IN  /\ session' = s0
           /\ screen' = Step2Screen(s0)
    /\ rerun' = FALSE
    /\ image' = None
    /\ UNCHANGED secrets_ok
    /\ UNCHANGED <<wrapVars, parseVars, renderVars>>

\* step 2, the cover form submitted
SubmitCover ==
    /\ ~rerun /\ screen = "cover_form"
    /\ \E chosen_index \in 1..Len(session["cover_urls"]) :
          LET s0 == Prologue(session, secrets_ok)
          IN  session' = Put(Put(s0, "chosen_url", s0["cover_urls"][chosen_index]),
                             "step", "3")
    /\ rerun' = TRUE
    /\ screen' = "running"
    /\ UNCHANGED <<secrets_ok, image>>
    /\ UNCHANGED <<wrapVars, parseVars, renderVars>>

\* the run at step 3: the image, or one of the two errors
RunStep3 ==
    /\ rerun /\ session["step"] = "3"
    /\ LET s0 == Prologue(session, secrets_ok)
           outcome == Step3Outcome(s0)
       IN  /\ session' = s0
           /\ screen' = outcome
           /\ \E fetched \in BOOLEAN :
                 image' = IF outcome = "image"
                          THEN Some(create_infographic(
                                   s0["book_title"], s0["author_name"],
                                   ParseSummaryText(s0["summary_text"]),
                                   s0["chosen_url"], s0["additional_info"], fetched))
                          ELSE None
    /\ rerun' = FALSE
    /\ UNCHANGED secrets_ok
    /\ UNCHANGED <<wrapVars, parseVars, renderVars>>

\* step 3, the download button: a widget, so the script runs again
Download ==
    /\ ~rerun /\ screen = "image"
    /\ session' = Prologue(session, secrets_ok)
    /\ rerun' = TRUE
    /\ UNCHANGED <<secrets_ok, screen, image>>
    /\ UNCHANGED <<wrapVars, parseVars, renderVars>>

\* a button with on_click=reset_app (Kembali, Coba Lagi, Kembali ke Awal,
\* Buat Ringkasan Baru): the callback, then the run it triggers, at step 1
Reset ==
    /\ ~rerun
    /\ screen \in {"confirm", "no_cover_error", "empty_summary_error",
                   "parse_error", "image"}
    /\ LET s0 == Prologue(reset_app(session), secrets_ok)
       IN  /\ session' = s0
           /\ screen' = IF s0["keys_loaded"] THEN "input_form" ELSE "stopped"
    /\ image' = None
    /\ UNCHANGED <<secrets_ok, rerun>>
    /\ UNCHANGED <<wrapVars, parseVars, renderVars>>

(***************************************************************************)
(* The specifications.                                                     *)
(***************************************************************************)
InitWrap == WrapInit /\ ParseIdle /\ RenderIdle /\ WizIdle
NextWrap == WrapAppend \/ WrapBreak \/ WrapFinish
SpecWrap == InitWrap /\ [][NextWrap]_vars

InitParse == ParseInit /\ WrapIdle /\ RenderIdle /\ WizIdle
NextParse == ParseEmpty \/ ParseMatch \/ ParseReturn
SpecParse == InitParse /\ [][NextParse]_vars

InitRender == RenderInit /\ WrapIdle /\ ParseIdle /\ WizIdle
NextRender == PlaceCard \/ DrawQuote \/ SkipQuote \/ DrawFooter
SpecRender == InitRender /\ [][NextRender]_vars

Init == WizInit /\ WrapIdle /\ ParseIdle /\ RenderIdle
Next ==
    \/ SubmitIncomplete \/ SubmitBook
    \/ RunStep15 \/ UseUserAuthor \/ UseRetrievedAuthor
    \/ RunProcessing \/ RunStep2 \/ SubmitCover
    \/ RunStep3 \/ Download \/ Reset
Spec == Init /\ [][Next]_vars

(***************************************************************************)
(* The claims.                                                             *)
(***************************************************************************)

\* ----- the wrapping loops (SpecWrap)

\* the line holds one word, and that word alone is wider than the maximum
OverwideAlone(line) ==
    /\ Len(Split(line)) = 1
    /\ TextLength(Split(line)[1]) > max_width

\* C1, as stated: every line the loops hand to draw.text has a measured width
\* of at most the maximum width, except a line of a single word whose own
\* width exceeds it.
C1_DrawnWithinWidth ==
    \A k \in 1..Len(drawn) :
        TextLength(drawn[k]) <= max_width \/ OverwideAlone(drawn[k])

\* C1, amended: every line the loops produce, measured without the space the
\* loop appends after its last word, is at most the maximum width wide,
\* except a line of a single word whose own width exceeds it, which is alone
\* on its line; measured with that trailing space (as a card description is
\* drawn) a line of two or more words is still within the maximum, and a
\* drawn line exceeds it by at most the width of one space unless it is such
\* a single overwide word.
C1_StrippedWithinWidth ==
    /\ \A k \in 1..Len(lines) :
          /\ TextLength(RStrip(lines[k])) <= max_width \/ OverwideAlone(lines[k])
          /\ TextLength(lines[k]) <= max_width \/ Len(Split(lines[k])) = 1
    /\ \A k \in 1..Len(drawn) :
          \/ TextLength(drawn[k]) <= max_width + CharWidth(" ")
          \/ OverwideAlone(drawn[k])

\* a finished wrap with a line of two words and a line of one overwide word
C1_Witness ==
    /\ wpc = "done"
    /\ \E k \in 1..Len(lines) : Len(Split(lines[k])) >= 2
    /\ \E k \in 1..Len(lines) : OverwideAlone(lines[k])

\* the strings of a list joined by single spaces
RECURSIVE JoinSpaces(_)
JoinSpaces(ss) ==
    IF ss = <<>> THEN <<>>
    ELSE IF Len(ss) = 1 THEN ss[1]
    ELSE ss[1] \o <<" ">> \o JoinSpaces(Tail(ss))

\* C2: the lines produced, concatenated and split at whitespace again, are
\* the words of the input, each once and in the original order; during the
\* loop the lines so far, the line being built and the words still to come
\* make up the input.  The drawn lines, joined by spaces, give the same words.
C2_WrapKeepsWords ==
    /\ wpc = "loop" =>
          Split(Concat(lines) \o current_line) \o words = Split(wrap_text)
    /\ wpc = "done" =>
          /\ Split(Concat(lines)) = Split(wrap_text)
          /\ Split(JoinSpaces(drawn)) = Split(wrap_text)

\* a finished wrap of three words or more over two lines or more
C2_Witness ==
    /\ wpc = "done"
    /\ Len(Split(wrap_text)) >= 3
    /\ Len(lines) >= 2

\* ----- parse_summary_text (SpecParse)

\* str.split("\n")
RECURSIVE SplitLinesFrom(_, _, _)
SplitLinesFrom(s, line, acc) ==
    IF s = <<>> THEN Append(acc, line)
    ELSE IF Head(s) = "\n" THEN SplitLinesFrom(Tail(s), <<>>, Append(acc, line))
    ELSE SplitLinesFrom(Tail(s), Append(line, Head(s)), acc)
SplitLines(s) == SplitLinesFrom(s, <<>>, <<>>)

\* the cards of each line parsed on its own, in line order
RECURSIVE PerLineCards(_)
PerLineCards(ls) ==
    IF ls = <<>> THEN <<>>
    ELSE ParseSummaryText(Some(Head(ls))) \o PerLineCards(Tail(ls))

\* C3: the result holds exactly the cards of the lines that match, in line
\* order, each card's title and description taken from within its one line,
\* and a line that does not match contributes nothing: parsing the text gives
\* what parsing its lines one by one gives.
C3_CardsPerLine ==
    (ppc = "done" /\ Truthy(text)) => cards = PerLineCards(SplitLines(text[1]))

\* a numbered list: every line is a numbered item whose title holds no colon
PlainItemLines ==
    {ItemLine(num, marked, <<"a">>, desc) :
        num \in {"1", "2"}, marked \in BOOLEAN, desc \in ItemDescriptions}
IsNumberedList(s) ==
    \A k \in 1..Len(SplitLines(s)) : SplitLines(s)[k] \in PlainItemLines

\* C4: for a numbered list, the text with the markers around its titles and
\* the text with the markers removed parse to the same cards, and no title
\* returned holds a marker.
C4_MarkersMakeNoDifference ==
    (ppc = "done" /\ Truthy(text) /\ IsNumberedList(text[1])) =>
        /\ cards = ParseSummaryText(Some(RemoveStars(text[1])))
        /\ \A k \in 1..Len(cards) :
              \A j \in 1..Len(cards[k].title) : cards[k].title[j] # "*"

\* ----- create_infographic (SpecRender)

\* two rectangles of draw.rounded_rectangle (corners included) share no point
Disjoint(a, b) ==
    a.x1 < b.x0 \/ b.x1 < a.x0 \/ a.y1 < b.y0 \/ b.y1 < a.y0

\* C7: card i (0-based) is in column i mod 2 and row i div 2 of the grid, no
\* two cards overlap, and a quote box that is drawn starts below the bottom
\* edge of every card.
C7_GridAndQuote ==
    /\ \A k \in 1..Len(boxes) :
          /\ boxes[k].x0 = PADDING + ((k - 1) % 2) * (COLUMN_WIDTH + GAP)
          /\ boxes[k].y0 = current_y_content + ((k - 1) \div 2) * (CARD_HEIGHT + GAP)
          /\ boxes[k].x1 - boxes[k].x0 = COLUMN_WIDTH
          /\ boxes[k].y1 - boxes[k].y0 = CARD_HEIGHT
    /\ \A k, j \in 1..Len(boxes) : k # j => Disjoint(boxes[k], boxes[j])
    /\ quote_box # None =>
          \A k \in 1..Len(boxes) : quote_box[1].y0 > boxes[k].y1

\* a finished render of four cards or more with a quote box
C7_Witness ==
    /\ rpc = "done"
    /\ Len(boxes) >= 4
    /\ quote_box # None

\* the details key of footer cell k
FooterKey(k) == <<"publisher", "publication_year", "page_count">>[k]

\* C8: the footer always has its three cells at the same places, and a field
\* that is missing or empty is rendered as "N/A", whatever the other fields.
C8_FooterFallback ==
    rpc = "done" =>
        /\ Len(footer_cells) = 3
        /\ \A k \in 1..3 :
              /\ footer_cells[k].x2n = ItemX2N(k - 1, 3)
              /\ (FooterKey(k) \notin DOMAIN details \/ details[FooterKey(k)] = <<>>)
                    => footer_cells[k].value = NA

\* ----- the wizard (Spec)

\* C5: an image is rendered only from a summary that is not empty and parses
\* to one card at least; with an empty or missing summary, or one no line of
\* which matches, step 3 shows an error and renders no image.
C5_RenderOnlyWithCards ==
    LET summary == Get(session, "summary_text", None)
    IN  /\ image # None =>
              /\ screen = "image"
              /\ Truthy(summary)
              /\ image[1].themes = ParseSummaryText(summary)
              /\ image[1].themes # <<>>
        /\ (session["step"] = "3" /\ ~rerun
              /\ (~Truthy(summary) \/ ParseSummaryText(summary) = <<>>)) =>
              /\ screen \in {"empty_summary_error", "parse_error"}
              /\ image = None

\* step 3 has run on a summary no line of which matches: an error, no image
C5_Witness ==
    /\ session["step"] = "3" /\ ~rerun
    /\ Truthy(Get(session, "summary_text", None))
    /\ screen = "parse_error"
    /\ image = None

\* C6, as stated: only a summary that is empty or parses to no card stops
\* the wizard; with one card at least it is never stopped at an error, the
\* cover search having returned nothing included.
C6_OnlyNoCardsStops ==
    screen \in {"no_cover_error", "empty_summary_error", "parse_error"} =>
        ParseSummaryText(Get(session, "summary_text", None)) = <<>>

\* C6, amended: when the cover search returned nothing, step 2 shows an error
\* and offers no cover to choose, whatever the summary; when it returned a
\* cover, step 2 offers the choice, and once a cover is chosen the run of
\* step 3 renders a summary that parses to one card at least to an image, the
\* cover pasted or not (a cover that fails to download or decode leaves its
\* slot empty).
C6_CoverSearchCanStop ==
    /\ screen = "no_cover_error" <=>
          (~rerun /\ session["step"] = "2" /\ session["cover_urls"] = <<>>)
    /\ screen = "cover_form" <=>
          (~rerun /\ session["step"] = "2" /\ session["cover_urls"] # <<>>)
    /\ (session["step"] = "3" /\ ~rerun
          /\ ParseSummaryText(Get(session, "summary_text", None)) # <<>>)
          => (screen = "image" /\ image # None)

\* an image rendered without its cover, the download having failed
C6_Witness ==
    /\ screen = "image"
    /\ image # None
    /\ ~image[1].cover_pasted
    /\ session["chosen_url"] # ""

\* case-insensitive substring, either way
SubstringEitherWay(a, b) ==
    IsSubstring(Lower(a), Lower(b)) \/ IsSubstring(Lower(b), Lower(a))

\* C9: leaving step 1, the wizard goes to the fetch exactly when the author
\* entered and the retrieved author are case-insensitive substrings of one
\* another, and to the confirmation otherwise; the author it goes on with is
\* the one entered or the one retrieved.
C9_FuzzyRouting ==
    [][(session["step"] = "1" /\ session'["step"] # "1") =>
          /\ session'["step"] \in {"processing", "1.5"}
          /\ session'["step"] = "processing" <=>
                SubstringEitherWay(session'["user_author"], session'["retrieved_author"])
          /\ session'["step"] = "processing" =>
                /\ "retrieved_author" \in DOMAIN session'["additional_info"]
                /\ session'["author_name"] \in
                      {session'["user_author"],
                       session'["additional_info"]["retrieved_author"]}]_vars

\* the elements of a list
Range(seq) == {seq[k] : k \in 1..Len(seq)}

\* C10: every step finds the session values it reads, written since the last
\* reset: step 1 holds nothing of an earlier run, the confirmation has both
\* authors, the fetch has the title and the author, step 2 has the covers,
\* and step 3 has a chosen cover that is one of those fetched, and the
\* additional details.
C10_StepsFindTheirKeys ==
    LET keys == DOMAIN session
        step == session["step"]
        entered == {"book_title", "user_author", "retrieved_author", "additional_info"}
        fetched == {"cover_urls", "summary_text"}
    IN  /\ {"keys_loaded", "step"} \subseteq keys
        /\ step \in {"1", "1.5", "processing", "2", "3"}
        /\ step = "1" => keys = {"keys_loaded", "step"}
        /\ step = "1.5" => entered \subseteq keys
        /\ step \in {"processing", "2", "3"} => entered \cup {"author_name"} \subseteq keys
        /\ step \in {"2", "3"} => fetched \subseteq keys
        /\ step = "3" =>
              /\ "chosen_url" \in keys
              /\ session["chosen_url"] \in Range(session["cover_urls"])

\* step 3 reached through the confirmation step, with the second cover chosen
C10_Witness ==
    /\ session["step"] = "3" /\ ~rerun
    /\ session["chosen_url"] = "u2"
    /\ session["author_name"] # session["retrieved_author"]

====
